---- MODULE Spec2Model ----
(***************************************************************************)
(* A model of src/trading_pipeline.py: credential-file resolution at       *)
(* import time, the paginated trade fetch, the DataFrame construction and  *)
(* sort of the entry point, the 1-minute OHLC aggregation with its VWAP    *)
(* and Donchian indicators, the chart construction and the output step.    *)
(*                                                                         *)
(* Spec      is the whole run (startup .. outputs) against an upstream     *)
(*           that answers each request with any response of Responses.     *)
(* SpecOhlc  applies process_to_ohlc to time-ordered trade tables drawn    *)
(*           from a bounded family (free trades followed by a regular      *)
(*           one-trade-per-minute run long enough to fill the Donchian     *)
(*           window).                                                      *)
(*                                                                         *)
(* Absent values (pandas NaN, a missing dict key) are the empty sequence   *)
(* <<>>; a present value v is <<v>>.  Prices are integers (ticks), so the  *)
(* arithmetic is exact; a quotient is kept as the pair <<num, den>>.       *)
(***************************************************************************)
EXTENDS Integers, Sequences, FiniteSets, TLC

VARIABLES
    exists,       \* file system: exists[i] for the i-th entry of env_paths
    pc,           \* position of the run
    consulted,    \* indices of env_paths whose .exists() was evaluated
    loaded,       \* index of the file given to load_dotenv, 0 if none
    exc,          \* name of the exception that ended the run, "none" otherwise
    page_token,   \* params["page_token"]: <<>> while the key is not set
    requests,     \* page_token of every GET issued so far, in order
    responses,    \* every response received so far, in order
    all_trades,   \* fetch_all_trades' accumulator
    trades,       \* the value fetch_all_trades returned
    df,           \* rows of the trade DataFrame
    ohlc,         \* rows of the bar DataFrame
    fig,          \* the figure's traces
    outputs       \* files written

vars == <<exists, pc, consulted, loaded, exc, page_token, requests, responses,
          all_trades, trades, df, ohlc, fig, outputs>>

(***************************************************************************)
(* Bounds and program constants                                            *)
(***************************************************************************)
MaxPages == 3        \* the upstream ends a listing within this many pages
MaxFree == 3         \* free trades at the head of a generated trade table

Freq1T == 60         \* resample('1T'): one bin per 60 seconds
Window == 20         \* rolling(20)
HTTP_OK == 200       \* response.status_code != 200

NaN == <<>>
Some(v) == <<v>>
IsNaN(x) == x = NaN

RECURSIVE SumSeq(_)
SumSeq(s) == IF s = <<>> THEN 0 ELSE Head(s) + SumSeq(Tail(s))

SeqMax(s) == CHOOSE x \in {s[i] : i \in 1..Len(s)} :
                 \A j \in 1..Len(s) : s[j] <= x
SeqMin(s) == CHOOSE x \in {s[i] : i \in 1..Len(s)} :
                 \A j \in 1..Len(s) : x <= s[j]

(***************************************************************************)
(* Startup: credential file resolution (module level, lines 14-25)         *)
(***************************************************************************)
\* env_paths: two Path objects and one plain str
env_paths == << [kind |-> "Path", loc |-> "../config/.env"],
                [kind |-> "Path", loc |-> "~/.alpaca.env"],
                [kind |-> "str",  loc |-> ".env"] >>

\* path.exists() is a method of Path; a str has no such attribute
HasExistsMethod(p) == p.kind = "Path"

\* for path in env_paths: if path.exists(): load_dotenv(path); break
\* else: raise FileNotFoundError
RECURSIVE ScanEnv(_, _, _)
ScanEnv(fs, i, seen) ==
    IF i > Len(env_paths)
    THEN [loaded |-> 0, exc |-> "FileNotFoundError", consulted |-> seen]
    ELSE IF ~HasExistsMethod(env_paths[i])
    THEN [loaded |-> 0, exc |-> "AttributeError", consulted |-> Append(seen, i)]
    ELSE IF fs[i]
    THEN [loaded |-> i, exc |-> "none", consulted |-> Append(seen, i)]
    ELSE ScanEnv(fs, i + 1, Append(seen, i))

Startup ==
    /\ pc = "startup"
    /\ LET r == ScanEnv(exists, 1, <<>>) IN
        /\ loaded' = r.loaded
        /\ exc' = r.exc
        /\ consulted' = r.consulted
        /\ pc' = IF r.exc = "none" THEN "main" ELSE "raised"
    /\ UNCHANGED <<exists, page_token, requests, responses, all_trades, trades,
                   df, ohlc, fig, outputs>>

(***************************************************************************)
(* The upstream: what one GET may be answered with                         *)
(***************************************************************************)
\* the trades of the upstream ({t, p, s, c}); t is the wall-clock time
\* <<hour, minute, second>> of an ISO-8601 UTC timestamp of one day
T1 == [t |-> <<9, 30, 0>>,  p |-> 100, s |-> 10, c |-> <<"@">>]
T2 == [t |-> <<9, 30, 30>>, p |-> 102, s |-> 5,  c |-> <<"@", "T">>]
T3 == [t |-> <<9, 31, 5>>,  p |-> 101, s |-> 20, c |-> <<>>]

Pages == { <<>>, <<T1, T2>>, <<T3>> }

\* next_page_token: key missing, null, or a string (possibly empty)
TokMissing == <<"missing", "">>
TokNull == <<"null", "">>
TokStr(v) == <<"str", v>>
Tokens == { TokMissing, TokNull, TokStr(""), TokStr("a"), TokStr("b") }

Responses ==
    [status : {HTTP_OK}, page : Pages, token : Tokens]
      \cup { [status |-> 500, page |-> <<>>, token |-> TokMissing],
             [status |-> 429, page |-> <<T3>>, token |-> TokStr("a")] }

(***************************************************************************)
(* fetch_all_trades (lines 38-64)                                          *)
(***************************************************************************)
\* a loop that never looks at the status code
IsSuccessAlways(r) == TRUE

\* line 52: response.status_code != 200 leaves the loop
IsSuccess(r) == r.status = HTTP_OK

\* a page put in front of the accumulated records
ExtendInFront(acc, page) == page \o acc

\* line 57: all_trades.extend(data["trades"][symbol])
Extend(acc, page) == acc \o page

\* line 59: "next_page_token" in data and data["next_page_token"]
HasNextPage(r) == r.token[1] = "str" /\ r.token[2] # ""

\* a page_token that is set once and never replaced
NextPageTokenStale(r) == IF page_token = <<>> THEN Some(r.token[2]) ELSE page_token

\* line 60: params["page_token"] = data["next_page_token"]
NextPageToken(r) == Some(r.token[2])

\* a response after which the loop goes round again
Continues(r) == IsSuccess(r) /\ HasNextPage(r)

\* lines 40-48: the accumulator is empty and params carries no page_token
FetchStart ==
    /\ pc = "main"
    /\ all_trades' = <<>>
    /\ page_token' = <<>>
    /\ pc' = "fetch"
    /\ UNCHANGED <<exists, consulted, loaded, exc, requests, responses, trades,
                   df, ohlc, fig, outputs>>

\* one round of the while loop (lines 50-62): the GET, its response r, and
\* what the loop does with it.  The upstream ends its listing by page MaxPages.
FetchPage(r) ==
    /\ pc = "fetch"
    /\ Len(responses) + 1 = MaxPages => ~Continues(r)
    /\ requests' = Append(requests, page_token)
    /\ responses' = Append(responses, r)
    /\ IF ~IsSuccess(r)
       THEN /\ pc' = "fetch_return"
            /\ UNCHANGED <<all_trades, page_token>>
       ELSE /\ all_trades' = Extend(all_trades, r.page)
            /\ IF HasNextPage(r)
               THEN /\ page_token' = NextPageToken(r)
                    /\ pc' = "fetch"
               ELSE /\ pc' = "fetch_return"
                    /\ UNCHANGED page_token
    /\ UNCHANGED <<exists, consulted, loaded, exc, trades, df, ohlc, fig, outputs>>

\* line 64 and line 143: return all_trades; trades = ...
FetchReturn ==
    /\ pc = "fetch_return"
    /\ trades' = Some(all_trades)
    /\ pc' = "build_df"
    /\ UNCHANGED <<exists, consulted, loaded, exc, page_token, requests, responses,
                   all_trades, df, ohlc, fig, outputs>>

(***************************************************************************)
(* Entry point: the trade DataFrame (lines 146-153)                        *)
(***************************************************************************)
\* pd.to_datetime(trade["t"]).tz_localize(None): seconds since midnight
ToDatetime(t) == (t[1] * 60 + t[2]) * 60 + t[3]

\* ",".join(trade["c"])
RECURSIVE Join(_)
Join(c) == IF Len(c) <= 1 THEN c ELSE <<Head(c), ",">> \o Join(Tail(c))

\* the dict built per trade (lines 146-151)
Row(tr) == [Timestamp |-> ToDatetime(tr.t), Price |-> tr.p, Size |-> tr.s,
            Conditions |-> Join(tr.c)]

\* pd.DataFrame(list of dicts): the columns are the keys of the dicts, so
\* a DataFrame built from the empty list has no column at all
Columns(rows) ==
    IF rows = <<>> THEN {} ELSE {"Timestamp", "Price", "Size", "Conditions"}

\* sort_values("Timestamp").reset_index(drop=True) on a table that has the
\* column.  Rows of equal Timestamp keep their order; in the tables of this
\* model rows of equal Timestamp are equal, so the order of ties is immaterial.
RECURSIVE InsertSorted(_, _)
InsertSorted(sorted, r) ==
    IF sorted = <<>> THEN <<r>>
    ELSE IF r.Timestamp < Head(sorted).Timestamp THEN <<r>> \o sorted
    ELSE <<Head(sorted)>> \o InsertSorted(Tail(sorted), r)

RECURSIVE SortValues(_)
SortValues(rows) ==
    IF rows = <<>> THEN <<>>
    ELSE InsertSorted(SortValues(SubSeq(rows, 1, Len(rows) - 1)), rows[Len(rows)])

BuildDf ==
    /\ pc = "build_df"
    /\ df' = [i \in 1..Len(trades[1]) |-> Row(trades[1][i])]
    /\ pc' = "sort"
    /\ UNCHANGED <<exists, consulted, loaded, exc, page_token, requests, responses,
                   all_trades, trades, ohlc, fig, outputs>>

\* line 153: sort_values raises KeyError when the table has no such column
SortDf ==
    /\ pc = "sort"
    /\ IF "Timestamp" \in Columns(df)
       THEN /\ df' = SortValues(df)
            /\ pc' = "process"
            /\ UNCHANGED exc
       ELSE /\ exc' = "KeyError"
            /\ pc' = "raised"
            /\ UNCHANGED df
    /\ UNCHANGED <<exists, consulted, loaded, page_token, requests, responses,
                   all_trades, trades, ohlc, fig, outputs>>

(***************************************************************************)
(* process_to_ohlc (lines 66-83)                                           *)
(***************************************************************************)
\* the left edge of the 1-minute bin a timestamp falls in (closed left)
Floor1T(t) == t - (t % Freq1T)

Timestamps(rows) == [i \in 1..Len(rows) |-> rows[i].Timestamp]

\* bins only where a row falls (a groupby on the floored timestamp)
BinStartsNonEmpty(rows) ==
    LET RECURSIVE Dedup(_)
        Dedup(ts) == IF ts = <<>> THEN <<>>
                     ELSE IF Len(ts) > 1 /\ Floor1T(ts[1]) = Floor1T(ts[2])
                          THEN Dedup(Tail(ts))
                          ELSE <<Floor1T(ts[1])>> \o Dedup(Tail(ts))
    IN  Dedup(Timestamps(rows))

\* resample('1T'): one bin per minute from the bin of the smallest timestamp
\* to the bin of the largest, whether or not a row falls in it
BinStarts(rows) ==
    LET lo == Floor1T(SeqMin(Timestamps(rows)))
        hi == Floor1T(SeqMax(Timestamps(rows)))
    IN  [k \in 1..((hi - lo) \div Freq1T + 1) |-> lo + (k - 1) * Freq1T]

InBin(rows, b) == SelectSeq(rows, LAMBDA r : Floor1T(r.Timestamp) = b)

Prices(g) == [i \in 1..Len(g) |-> g[i].Price]
Sizes(g) == [i \in 1..Len(g) |-> g[i].Size]

\* 'last' taken for 'max'
AggMaxAsLast(g) == IF g = <<>> THEN NaN ELSE Some(g[Len(g)].Price)

\* 'first' taken for 'last'
AggLastAsFirst(g) == IF g = <<>> THEN NaN ELSE Some(g[1].Price)

\* the aggregations of line 70; each is NaN on a bin without rows
AggFirst(g) == IF g = <<>> THEN NaN ELSE Some(g[1].Price)
AggMax(g) == IF g = <<>> THEN NaN ELSE Some(SeqMax(Prices(g)))
AggMin(g) == IF g = <<>> THEN NaN ELSE Some(SeqMin(Prices(g)))
AggLast(g) == IF g = <<>> THEN NaN ELSE Some(g[Len(g)].Price)

\* line 75: ['Size'].sum() is 0 on a bin without rows
AggVolume(g) == SumSeq(Sizes(g))

\* lines 69-76: the OHLC table merged with the volume on the bin index
Resample(rows) ==
    LET bins == BinStarts(rows) IN
    [k \in 1..Len(bins) |->
        LET g == InBin(rows, bins[k]) IN
        [Timestamp |-> bins[k], Open |-> AggFirst(g), High |-> AggMax(g),
         Low |-> AggMin(g), Close |-> AggLast(g), Volume |-> AggVolume(g)]]

\* Close * Volume: NaN where Close is NaN
TimesVolume(x, v) == IF IsNaN(x) THEN NaN ELSE Some(x[1] * v)

\* Series.cumsum() (skipna): NaN entries stay NaN and add nothing
RECURSIVE CumSumFrom(_, _)
CumSumFrom(s, total) ==
    IF s = <<>> THEN <<>>
    ELSE IF IsNaN(Head(s)) THEN <<NaN>> \o CumSumFrom(Tail(s), total)
    ELSE <<Some(total + Head(s)[1])>> \o CumSumFrom(Tail(s), total + Head(s)[1])

CumSum(s) == CumSumFrom(s, 0)

\* the quotient of line 79, kept as <<numerator, denominator>>
Quotient(n, d) ==
    IF IsNaN(n) \/ IsNaN(d) \/ (n[1] = 0 /\ d[1] = 0) THEN NaN ELSE <<n[1], d[1]>>

\* a per-bar value: each bar's own Close * Volume over its own Volume
VwapPerBar(bars) ==
    [i \in 1..Len(bars) |->
        Quotient(TimesVolume(bars[i].Close, bars[i].Volume), Some(bars[i].Volume))]

\* line 79
Vwap(bars) ==
    LET pv == CumSum([i \in 1..Len(bars) |-> TimesVolume(bars[i].Close, bars[i].Volume)])
        v  == CumSum([i \in 1..Len(bars) |-> Some(bars[i].Volume)])
    IN  [i \in 1..Len(bars) |-> Quotient(pv[i], v[i])]

\* the rows a rolling(w) window ending at i covers
WindowAt(i, w) == (IF i - w + 1 < 1 THEN 1 ELSE i - w + 1)..i

\* rolling(w, min_periods=1)
MinPeriodsOne(w) == 1

\* min_periods of rolling(w) defaults to w
MinPeriods(w) == w

\* rolling(w).max() / .min(): NaN unless the window holds at least
\* min_periods values that are not NaN
RollingMax(s, w) ==
    [i \in 1..Len(s) |->
        LET obs == {j \in WindowAt(i, w) : ~IsNaN(s[j])} IN
        IF Cardinality(obs) < MinPeriods(w) THEN NaN
        ELSE Some(CHOOSE x \in {s[j][1] : j \in obs} : \A j \in obs : s[j][1] <= x)]

RollingMin(s, w) ==
    [i \in 1..Len(s) |->
        LET obs == {j \in WindowAt(i, w) : ~IsNaN(s[j])} IN
        IF Cardinality(obs) < MinPeriods(w) THEN NaN
        ELSE Some(CHOOSE x \in {s[j][1] : j \in obs} : \A j \in obs : x <= s[j][1])]

process_to_ohlc(rows) ==
    LET bars == Resample(rows)
        vwap == Vwap(bars)
        dhi  == RollingMax([i \in 1..Len(bars) |-> bars[i].High], Window)
        dlo  == RollingMin([i \in 1..Len(bars) |-> bars[i].Low], Window)
    IN  [i \in 1..Len(bars) |->
            [Timestamp |-> bars[i].Timestamp, Open |-> bars[i].Open,
             High |-> bars[i].High, Low |-> bars[i].Low, Close |-> bars[i].Close,
             Volume |-> bars[i].Volume, VWAP |-> vwap[i],
             Donchian_High |-> dhi[i], Donchian_Low |-> dlo[i]]]

\* line 154
Process ==
    /\ pc = "process"
    /\ ohlc' = process_to_ohlc(df)
    /\ pc' = "plot"
    /\ UNCHANGED <<exists, consulted, loaded, exc, page_token, requests, responses,
                   all_trades, trades, df, fig, outputs>>

(***************************************************************************)
(* create_plot (lines 85-134) and the output step (lines 157-163)          *)
(***************************************************************************)
Column(tbl, name) == [i \in 1..Len(tbl) |-> tbl[i][name]]

create_plot(tbl) ==
    << [type |-> "Candlestick", row |-> 1, x |-> Column(tbl, "Timestamp"),
        open |-> Column(tbl, "Open"), high |-> Column(tbl, "High"),
        low |-> Column(tbl, "Low"), close |-> Column(tbl, "Close")],
       [type |-> "Scatter", row |-> 1, name |-> "VWAP",
        x |-> Column(tbl, "Timestamp"), y |-> Column(tbl, "VWAP")],
       [type |-> "Scatter", row |-> 1, name |-> "Donchian High",
        x |-> Column(tbl, "Timestamp"), y |-> Column(tbl, "Donchian_High")],
       [type |-> "Scatter", row |-> 1, name |-> "Donchian Low",
        x |-> Column(tbl, "Timestamp"), y |-> Column(tbl, "Donchian_Low")],
       [type |-> "Bar", row |-> 2, name |-> "Volume",
        x |-> Column(tbl, "Timestamp"), y |-> Column(tbl, "Volume")] >>

\* line 157
CreatePlot ==
    /\ pc = "plot"
    /\ fig' = create_plot(ohlc)
    /\ pc' = "save"
    /\ UNCHANGED <<exists, consulted, loaded, exc, page_token, requests, responses,
                   all_trades, trades, df, ohlc, outputs>>

\* lines 158-163: show, write_html, to_csv.  to_csv does not create the
\* directory data/: it raises OSError when the directory is not there.
SaveOutputs(dataDir) ==
    /\ pc = "save"
    /\ IF dataDir
       THEN /\ outputs' = {"trading_analysis.html", "data/ohlc_data.csv"}
            /\ pc' = "done"
            /\ UNCHANGED exc
       ELSE /\ outputs' = {"trading_analysis.html"}
            /\ pc' = "raised"
            /\ exc' = "OSError"
    /\ UNCHANGED <<exists, consulted, loaded, page_token, requests, responses,
                   all_trades, trades, df, ohlc, fig>>

(***************************************************************************)
(* The whole run                                                           *)
(***************************************************************************)
Init ==
    /\ exists \in [1..3 -> BOOLEAN]
    /\ pc = "startup"
    /\ consulted = <<>>
    /\ loaded = 0
    /\ exc = "none"
    /\ page_token = <<>>
    /\ requests = <<>>
    /\ responses = <<>>
    /\ all_trades = <<>>
    /\ trades = <<>>
    /\ df = <<>>
    /\ ohlc = <<>>
    /\ fig = <<>>
    /\ outputs = {}

Next ==
    \/ Startup
    \/ FetchStart
    \/ \E r \in Responses : FetchPage(r)
    \/ FetchReturn
    \/ BuildDf
    \/ SortDf
    \/ Process
    \/ CreatePlot
    \/ \E dataDir \in BOOLEAN : SaveOutputs(dataDir)

Spec == Init /\ [][Next]_vars

(***************************************************************************)
(* process_to_ohlc on generated trade tables                               *)
(*                                                                         *)
(* A table is built in time order: up to MaxFree trades, each any of       *)
(* GenGaps seconds after the one before it with any price of GenPrices and *)
(* any size of GenSizes (so trades share a minute, fall seconds apart into *)
(* consecutive minutes, or leave a minute without trades), then optionally *)
(* a run of one trade per minute, at a price between those of GenPrices,   *)
(* that is one short of, equal to, or one longer than the Donchian window. *)
(***************************************************************************)
GenGaps == {15, 105}
GenPrices == {1, 3}
GenSizes == {1, 2}
RunLens == {Window - 1, Window, Window + 1}
RunTrade == [gap |-> Freq1T, p |-> 2, s |-> 1]

LastTimestamp(rows) == IF rows = <<>> THEN 0 ELSE rows[Len(rows)].Timestamp

GenRow(rows, gap, p, s) ==
    [Timestamp |-> LastTimestamp(rows) + gap, Price |-> p, Size |-> s,
     Conditions |-> <<>>]

RECURSIVE WithRun(_, _)
WithRun(rows, n) ==
    IF n = 0 THEN rows
    ELSE WithRun(Append(rows, GenRow(rows, RunTrade.gap, RunTrade.p, RunTrade.s)), n - 1)

AddTrade(gap, p, s) ==
    /\ pc = "gen"
    /\ Len(df) < MaxFree
    /\ df' = Append(df, GenRow(df, gap, p, s))
    /\ UNCHANGED <<exists, pc, consulted, loaded, exc, page_token, requests,
                   responses, all_trades, trades, ohlc, fig, outputs>>

AddRun(n) ==
    /\ pc = "gen"
    /\ df' = WithRun(df, n)
    /\ pc' = "gen_full"
    /\ UNCHANGED <<exists, consulted, loaded, exc, page_token, requests,
                   responses, all_trades, trades, ohlc, fig, outputs>>

\* the table of the three trades 09:30:00, 09:30:30, 09:31:05
LoadExample ==
    /\ pc = "gen"
    /\ df = <<>>
    /\ df' = <<Row(T1), Row(T2), Row(T3)>>
    /\ pc' = "gen_full"
    /\ UNCHANGED <<exists, consulted, loaded, exc, page_token, requests,
                   responses, all_trades, trades, ohlc, fig, outputs>>

\* ohlc = process_to_ohlc(df) on a table that has rows
ApplyOhlc ==
    /\ pc \in {"gen", "gen_full"}
    /\ df # <<>>
    /\ ohlc' = process_to_ohlc(df)
    /\ pc' = "processed"
    /\ UNCHANGED <<exists, consulted, loaded, exc, page_token, requests,
                   responses, all_trades, trades, df, fig, outputs>>

InitOhlc ==
    /\ exists = [i \in 1..3 |-> TRUE]
    /\ pc = "gen"
    /\ consulted = <<>>
    /\ loaded = 0
    /\ exc = "none"
    /\ page_token = <<>>
    /\ requests = <<>>
    /\ responses = <<>>
    /\ all_trades = <<>>
    /\ trades = <<>>
    /\ df = <<>>
    /\ ohlc = <<>>
    /\ fig = <<>>
    /\ outputs = {}

NextOhlc ==
    \/ \E gap \in GenGaps, p \in GenPrices, s \in GenSizes : AddTrade(gap, p, s)
    \/ \E n \in RunLens : AddRun(n)
    \/ LoadExample
    \/ ApplyOhlc

SpecOhlc == InitOhlc /\ [][NextOhlc]_vars

(***************************************************************************)
(* Properties of the run (Spec)                                            *)
(***************************************************************************)
Returned == trades # <<>>

RECURSIVE Concat(_)
Concat(ss) == IF ss = <<>> THEN <<>> ELSE Head(ss) \o Concat(Tail(ss))

PagesOf(rs) == [k \in 1..Len(rs) |-> rs[k].page]
StatusOk(r) == r.status = 200
TokenNonEmpty(r) == r.token[1] = "str" /\ r.token[2] # ""
LastResponse == responses[Len(responses)]
InLoop == pc = "fetch"

\* C1: when every response is a success, the first n-1 carrying a non-empty
\* next_page_token and the n-th a missing, null or empty one, the value
\* fetch_all_trades returns is the concatenation of the pages' records, in
\* page order and in the order within each page.
C1_ReturnsConcatenation ==
    ( /\ Returned
      /\ Len(responses) >= 1
      /\ \A k \in 1..Len(responses) : StatusOk(responses[k])
      /\ \A k \in 1..(Len(responses) - 1) : TokenNonEmpty(responses[k])
      /\ ~TokenNonEmpty(LastResponse) )
    => trades[1] = Concat(PagesOf(responses))

\* two success pages, 2 + 1 records, a token on the first page only
C1_Witness ==
    /\ Returned
    /\ Len(responses) = 2
    /\ \A k \in 1..2 : StatusOk(responses[k])
    /\ TokenNonEmpty(responses[1]) /\ ~TokenNonEmpty(responses[2])
    /\ responses[1].page = <<T1, T2>> /\ responses[2].page = <<T3>>
    /\ trades[1] = <<T1, T2, T3>>

\* C2: once the k-th response is a non-success one, no further request is
\* issued, no exception is raised by the fetch, and the value returned is
\* the plain list of the records of responses 1..k-1.
C2_NonSuccessStopsSilently ==
    (Len(responses) >= 1 /\ ~StatusOk(LastResponse))
    => /\ ~InLoop
       /\ Len(requests) = Len(responses)
       /\ all_trades = Concat(PagesOf(SubSeq(responses, 1, Len(responses) - 1)))
       /\ pc \in {"fetch_return", "build_df"} => exc = "none"
       /\ pc # "fetch_return" => trades = Some(all_trades)

\* a non-success second response that itself carries a record and a token:
\* the fetch has returned the first page only
C2_Witness ==
    /\ Returned
    /\ Len(responses) = 2
    /\ StatusOk(responses[1]) /\ responses[1].page = <<T1, T2>>
    /\ ~StatusOk(responses[2]) /\ responses[2].page # <<>>
    /\ trades[1] = <<T1, T2>>

\* C10: the first request carries no page_token; request k+1 exists exactly
\* when response k is a success with a non-empty token, and carries that
\* token; the loop is left only after a response that is a non-success or
\* has no non-empty token.
C10_TokenChaining ==
    /\ Len(requests) >= 1 => requests[1] = <<>>
    /\ \A k \in 1..(Len(requests) - 1) :
          /\ StatusOk(responses[k]) /\ TokenNonEmpty(responses[k])
          /\ requests[k + 1] = <<responses[k].token[2]>>
    /\ Len(responses) >= 1 =>
          (InLoop <=> (StatusOk(LastResponse) /\ TokenNonEmpty(LastResponse)))
    /\ InLoop => page_token =
          (IF responses = <<>> THEN <<>> ELSE <<LastResponse.token[2]>>)

\* three requests, the third carrying the second response's token, which
\* differs from the first response's
C10_Witness ==
    /\ Len(requests) = 3
    /\ responses[1].token # responses[2].token
    /\ requests[3] = <<responses[2].token[2]>>
    /\ ~InLoop

\* C9: startup loads the first of the three locations that exists, looks at
\* no later one, and ends with FileNotFoundError exactly when none exists.
C9_FirstExistingLoaded ==
    pc # "startup" =>
        LET there == {i \in 1..3 : exists[i]} IN
        IF there = {}
        THEN loaded = 0 /\ exc = "FileNotFoundError" /\ requests = <<>>
        ELSE LET first == CHOOSE i \in there : \A j \in there : i <= j IN
             /\ loaded = first
             /\ consulted = [k \in 1..first |-> k]
             /\ exc # "FileNotFoundError"

\* C8: a run whose fetch returned zero trades raises nothing before the
\* output step: it gets an empty bar table and a chart built from it.
C8_EmptyRunReachesOutput ==
    trades = Some(<<>>) =>
        /\ pc = "raised" => exc = "OSError"
        /\ pc \in {"plot", "save", "done"} => ohlc = <<>>

(***************************************************************************)
(* Properties of process_to_ohlc (SpecOhlc)                                *)
(***************************************************************************)
Processed == pc = "processed"
MinuteOf(t) == t \div 60
TradeMinutes == {MinuteOf(df[i].Timestamp) : i \in 1..Len(df)}
TradesIn(m) == {i \in 1..Len(df) : MinuteOf(df[i].Timestamp) = m}
BarMinute(k) == MinuteOf(ohlc[k].Timestamp)
HasTrades(k) == \E i \in 1..Len(df) : MinuteOf(df[i].Timestamp) = BarMinute(k)
Bars == 1..Len(ohlc)
FirstMinute == CHOOSE m \in TradeMinutes : \A n \in TradeMinutes : m <= n
LastMinute == CHOOSE m \in TradeMinutes : \A n \in TradeMinutes : n <= m
PricesDefined(k) ==
    ohlc[k].Open # <<>> /\ ohlc[k].High # <<>> /\ ohlc[k].Low # <<>> /\ ohlc[k].Close # <<>>
PricesAbsent(k) ==
    ohlc[k].Open = <<>> /\ ohlc[k].High = <<>> /\ ohlc[k].Low = <<>> /\ ohlc[k].Close = <<>>

RECURSIVE SizeSum(_)
SizeSum(I) == IF I = {} THEN 0
              ELSE LET i == CHOOSE x \in I : TRUE IN df[i].Size + SizeSum(I \ {i})

\* C3 as stated: one bar per minute that holds a trade and none for a
\* minute without trades, so as many bars as distinct trade minutes.
C3_OnlyNonEmptyMinutes ==
    Processed =>
        /\ Len(ohlc) = Cardinality(TradeMinutes)
        /\ \A k \in Bars : HasTrades(k)

\* C3 (amended): one bar per minute from the minute of the first trade to
\* the minute of the last, in order, whether or not the minute holds a
\* trade; every trade minute has its bar.
C3_OneBarPerMinuteOfSpan ==
    Processed =>
        /\ Len(ohlc) = LastMinute - FirstMinute + 1
        /\ \A k \in Bars : ohlc[k].Timestamp = (FirstMinute + k - 1) * 60
        /\ \A m \in TradeMinutes : \E k \in Bars : ohlc[k].Timestamp = m * 60

\* trades leave a minute empty: more bars than trade minutes
C3_Witness ==
    /\ Processed
    /\ Len(ohlc) > Cardinality(TradeMinutes)
    /\ \E k \in Bars : ~HasTrades(k)

\* C4: the bar of a minute that holds trades has the price of the minute's
\* earliest trade as open, of its latest as close, its largest price as
\* high, its smallest as low and the sum of its sizes as volume; a trade
\* belongs to the minute its timestamp truncates to.
C4_BarOfTradeMinute ==
    Processed =>
        \A k \in Bars : HasTrades(k) =>
            LET I == TradesIn(BarMinute(k))
                lo == CHOOSE i \in I : \A j \in I : i <= j
                hi == CHOOSE i \in I : \A j \in I : j <= i
            IN  /\ ohlc[k].Timestamp % 60 = 0
                /\ ohlc[k].Open = <<df[lo].Price>>
                /\ ohlc[k].Close = <<df[hi].Price>>
                /\ \E i \in I : ohlc[k].High = <<df[i].Price>>
                /\ \A i \in I : df[i].Price <= ohlc[k].High[1]
                /\ \E i \in I : ohlc[k].Low = <<df[i].Price>>
                /\ \A i \in I : ohlc[k].Low[1] <= df[i].Price
                /\ ohlc[k].Volume = SizeSum(I)

\* the three trades 09:30:00 p100 s10, 09:30:30 p102 s5, 09:31:05 p101 s20
\* and their two bars
C4_Witness ==
    /\ Processed
    /\ df = <<Row(T1), Row(T2), Row(T3)>>
    /\ Len(ohlc) = 2
    /\ ohlc[1].Timestamp = (9 * 60 + 30) * 60
    /\ ohlc[1].Open = <<100>> /\ ohlc[1].High = <<102>> /\ ohlc[1].Low = <<100>>
    /\ ohlc[1].Close = <<102>> /\ ohlc[1].Volume = 15
    /\ ohlc[2].Timestamp = (9 * 60 + 31) * 60
    /\ ohlc[2].Open = <<101>> /\ ohlc[2].High = <<101>> /\ ohlc[2].Low = <<101>>
    /\ ohlc[2].Close = <<101>> /\ ohlc[2].Volume = 20

Ordered(k) ==
    /\ ohlc[k].Low[1] <= ohlc[k].Open[1] /\ ohlc[k].Open[1] <= ohlc[k].High[1]
    /\ ohlc[k].Low[1] <= ohlc[k].Close[1] /\ ohlc[k].Close[1] <= ohlc[k].High[1]

\* C5 as stated: every bar has its four prices defined, low <= open <= high,
\* low <= close <= high and volume >= 0.
C5_EveryBarOrdered ==
    Processed =>
        \A k \in Bars : PricesDefined(k) /\ Ordered(k) /\ ohlc[k].Volume >= 0

\* C5 (amended): a bar of a minute that holds trades has its four prices
\* defined with low <= open <= high, low <= close <= high and volume >= 0;
\* a bar of a minute without trades has its four prices absent and volume 0.
C5_BarOrderedOrAbsent ==
    Processed =>
        \A k \in Bars :
            IF HasTrades(k)
            THEN PricesDefined(k) /\ Ordered(k) /\ ohlc[k].Volume >= 0
            ELSE PricesAbsent(k) /\ ohlc[k].Volume = 0

\* a minute that closes below its open, its low below its high, in a
\* table that also leaves a minute without trades
C5_Witness ==
    /\ Processed
    /\ \E k \in Bars : /\ HasTrades(k)
                       /\ ohlc[k].Low[1] < ohlc[k].High[1]
                       /\ ohlc[k].Close[1] < ohlc[k].Open[1]
    /\ \E k \in Bars : ~HasTrades(k) /\ PricesAbsent(k)

\* sum over the bars 1..i of close * volume, a bar without a close adding 0
RECURSIVE SumCloseVolume(_)
SumCloseVolume(i) ==
    IF i = 0 THEN 0
    ELSE SumCloseVolume(i - 1)
         + (IF ohlc[i].Close = <<>> THEN 0 ELSE ohlc[i].Close[1] * ohlc[i].Volume)

RECURSIVE SumVolume(_)
SumVolume(i) == IF i = 0 THEN 0 ELSE SumVolume(i - 1) + ohlc[i].Volume

\* the quotient <<n, d>> equals a / b
SameQuotient(q, a, b) == Len(q) = 2 /\ q[2] # 0 /\ b # 0 /\ q[1] * b = a * q[2]

\* C6 as stated: at every bar i the VWAP is defined and equals the sum of
\* close * volume over the bars up to i divided by the sum of their volumes.
C6_VwapAtEveryBar ==
    Processed =>
        \A i \in Bars : SameQuotient(ohlc[i].VWAP, SumCloseVolume(i), SumVolume(i))

\* C6 (amended): at every bar i of a minute that holds trades the VWAP
\* equals the sum of close * volume over the bars up to i divided by the sum
\* of their volumes (never reset); at a bar of a minute without trades the
\* VWAP is absent.
C6_VwapCumulativeOrAbsent ==
    Processed =>
        \A i \in Bars :
            IF HasTrades(i)
            THEN SameQuotient(ohlc[i].VWAP, SumCloseVolume(i), SumVolume(i))
            ELSE ohlc[i].VWAP = <<>>

\* a bar after a minute without trades whose cumulative VWAP differs from
\* its own close
C6_Witness ==
    /\ Processed
    /\ \E i, j \in Bars :
          /\ j < i /\ ~HasTrades(j) /\ ohlc[j].VWAP = <<>>
          /\ HasTrades(i)
          /\ ohlc[i].VWAP[1] # ohlc[i].Close[1] * ohlc[i].VWAP[2]

WindowBars(i) == (i - 19)..i
HighIsWindowMax(i) ==
    /\ \E j \in WindowBars(i) : ohlc[j].High # <<>> /\ ohlc[i].Donchian_High = ohlc[j].High
    /\ \A j \in WindowBars(i) :
          ohlc[j].High # <<>> => ohlc[j].High[1] <= ohlc[i].Donchian_High[1]
LowIsWindowMin(i) ==
    /\ \E j \in WindowBars(i) : ohlc[j].Low # <<>> /\ ohlc[i].Donchian_Low = ohlc[j].Low
    /\ \A j \in WindowBars(i) :
          ohlc[j].Low # <<>> => ohlc[i].Donchian_Low[1] <= ohlc[j].Low[1]
DonchianAbsent(i) == ohlc[i].Donchian_High = <<>> /\ ohlc[i].Donchian_Low = <<>>

\* C7 as stated: from the 20th bar on, Donchian_High is the largest High and
\* Donchian_Low the smallest Low of the bar and the 19 before it; before the
\* 20th bar both are absent.
C7_DonchianFromBar20 ==
    Processed =>
        \A i \in Bars :
            IF i >= 20 THEN HighIsWindowMax(i) /\ LowIsWindowMin(i)
            ELSE DonchianAbsent(i)

\* C7 (amended): at a bar from the 20th on whose 20-bar window holds only
\* minutes with trades, Donchian_High is the largest High and Donchian_Low
\* the smallest Low of the window; at every other bar (before the 20th, or
\* with a minute without trades in the window) both are absent; trades of a
\* single minute give one bar with both absent.
C7_DonchianFullWindowOnly ==
    Processed =>
        /\ \A i \in Bars :
              IF i >= 20 /\ \A j \in WindowBars(i) : HasTrades(j)
              THEN HighIsWindowMax(i) /\ LowIsWindowMin(i)
              ELSE DonchianAbsent(i)
        /\ Cardinality(TradeMinutes) = 1 => Len(ohlc) = 1 /\ DonchianAbsent(1)

\* a table with one bar past the 20th whose window holds a minute without
\* trades and a later bar whose window holds none, its Donchian_High above
\* its Donchian_Low
C7_Witness ==
    /\ Processed
    /\ \E i \in Bars : i >= 20 /\ DonchianAbsent(i)
    /\ \E i \in Bars : /\ i >= 20
                       /\ ohlc[i].Donchian_High # <<>>
                       /\ ohlc[i].Donchian_Low # <<>>
                       /\ ohlc[i].Donchian_Low[1] < ohlc[i].Donchian_High[1]
====
